---- MODULE Spec2Model ----
(***************************************************************************)
(* Model of GiNOD/RHCPlanner.py (RHCPlanner.plan) and of the cost objects  *)
(* of GiNOD/cost.py.                                                       *)
(*                                                                         *)
(* Arrays keep the source's 0-based indices: a vector is a function on     *)
(* 0..n-1, a trajectory log is a function from the column index to the     *)
(* column.  Floating-point values are modelled by integers.  The external  *)
(* collaborators (subgame solvers, QMDP planners, the opinion model and    *)
(* the physical system) return values drawn from small sets; every call    *)
(* is recorded, with its arguments and its result, in `calls`.             *)
(***************************************************************************)
EXTENDS Integers, Sequences, FiniteSets, TLC

\* ------------------------------------------------------------------ bounds
MaxNsim == 2
MaxNz == 3
MaxHorizon == 2
MaxTerms == 2
\* exp is computed in fixed point: the value 1 is 2^ExpShift
ExpShift == 8

\* ------------------------------------------------------------- small sets
None == "None"
\* an array or tuple that is not assigned yet
Unset == <<"None">>
Methods == {"QMDPL0", "QMDPL1", "QMDPL1L0", "QMDPL2"}
Recognized == {"QMDPL0", "QMDPL1", "QMDPL1L0"}
Ts == {1, 2}

Vec2(a, b) == [i \in 0..1 |-> IF i = 0 THEN a ELSE b]
Mat2(a, b, c, d) == [i \in 0..1 |-> IF i = 0 THEN Vec2(a, b) ELSE Vec2(c, d)]

\* x0 and the states disc_time_dyn may return (nx = 2)
X0 == Vec2(0, 0)
PhysStates == {Vec2(1, 0), Vec2(0, 1)}
\* z0 has nz = nz1 + nz2 + 2 pairwise distinct components
Z0(nz) == [i \in 0..(nz - 1) |-> i + 1]
\* the operating points a subgame solver may expose after run()
OperatingPoints ==
  { [xs_la |-> Vec2(1, 1), Zs0 |-> Mat2(1, 0, 0, 1), Zs1 |-> Mat2(2, 0, 0, 2),
     zetas0 |-> Vec2(1, 2), zetas1 |-> Vec2(3, 4), nom_costs |-> Vec2(5, 6)],
    [xs_la |-> Vec2(2, 2), Zs0 |-> Mat2(3, 1, 1, 3), Zs1 |-> Mat2(4, 1, 1, 4),
     zetas0 |-> Vec2(5, 6), zetas1 |-> Vec2(7, 8), nom_costs |-> Vec2(7, 8)] }
\* the actions a QMDP planner may return
Actions1 == {1, 2}
Actions2 == {3, 4}
\* what GiNOD.cont_time_dyn may return for an opinion vector of length nz
\* with n = nz1 + nz2 opinion modes
ConstMat(n, v) == [i \in 0..(n - 1) |-> [j \in 0..(n - 1) |-> v]]
GiNODReturns(nz, n) ==
  { [z_dot |-> [i \in 0..(nz - 1) |-> 1], H |-> ConstMat(n, 1), PoI1 |-> 1, PoI2 |-> 2],
    [z_dot |-> [i \in 0..(nz - 1) |-> 0 - (i + 1)], H |-> ConstMat(n, 2), PoI1 |-> 3, PoI2 |-> 4] }

\* ---------------------------------------------------------- numpy helpers
\* np.zeros((n,)) and v[a:b]
Zeros(n) == [i \in 0..(n - 1) |-> 0]
Slice(v, a, b) == [i \in 0..(b - a - 1) |-> v[a + i]]
\* np.hstack((a, b)) of vectors of lengths na and nb
HStack(a, na, b, nb) == [i \in 0..(na + nb - 1) |-> IF i < na THEN a[i] ELSE b[i - na]]
\* v + T * d, elementwise
Euler(v, t, d) == [i \in DOMAIN v |-> v[i] + t * d[i]]

VARIABLES
  N_sim, method, nz1, nz2, T,      \* planner configuration (self._N_sim, ...)
  x0, z0,                          \* arguments of plan
  pc, exc,                         \* position in plan, exception raised
  k, l1, l2,                       \* loop indices
  xs, zs, Hs, PoI,                 \* local trajectory logs of plan
  Z1_k, Z2_k, zeta1_k, zeta2_k, nom_cost1_k, nom_cost2_k, xnom_k,
  subgame_k, u_list,
  self_xs, self_zs, self_Hs, self_PoI,   \* attributes of the planner
  calls,                           \* collaborator calls of the current step
  rets,                            \* what cont_time_dyn returned, step by step
  cost,                            \* a Cost object: its variant and the attributes set by __init__
  reference,                       \* its attribute `reference` (settable after construction)
  jit_get_cost,                    \* compiled get_cost of the object: input shape -> reference baked in
  jit_get_traj_cost,               \* compiled get_traj_cost: input shape -> reference baked in
  jit_get_grad, jit_get_hess,      \* compiled get_grad, get_hess: input shape -> reference baked in
  last,                            \* the last evaluation: call, inputs, result
  p_costs, p_args, p_weights,      \* a PlayerCost: self._costs, self._args, self._weights
  p_horizon,                       \* the horizon its terms are declared against
  jit_p_get_cost,                  \* compiled PlayerCost.get_cost: input shape -> term lists baked in
  jit_p_quadraticize,              \* compiled quadraticize_jitted: input shape -> term lists baked in
  p_late,                          \* a term was added after the object was evaluated
  p_last                           \* the last evaluation of the PlayerCost

cfgVars == <<N_sim, method, nz1, nz2, T, x0, z0>>
logVars == <<xs, zs, Hs, PoI>>
bundleVars == <<Z1_k, Z2_k, zeta1_k, zeta2_k, nom_cost1_k, nom_cost2_k, xnom_k>>
selfVars == <<self_xs, self_zs, self_Hs, self_PoI>>
planVars == <<cfgVars, pc, exc, k, l1, l2, logVars, bundleVars, subgame_k, u_list,
              selfVars, calls, rets>>
costVars == <<cost, reference, jit_get_cost, jit_get_traj_cost, jit_get_grad, jit_get_hess, last>>
playerVars == <<p_costs, p_args, p_weights, p_horizon, jit_p_get_cost, jit_p_quadraticize,
                p_late, p_last>>
vars == <<planVars, costVars, playerVars>>

nx == 2
nz == nz1 + nz2 + 2

\* RHCPlanner.__init__: the planner is constructed with the configuration
\* (n, m, a, b, t), plan was not called yet.
PlannerNew(n, m, a, b, t) ==
  /\ N_sim = n
  /\ method = m
  /\ nz1 = a
  /\ nz2 = b
  /\ T = t
  /\ x0 = X0
  /\ z0 = Z0(nz1 + nz2 + 2)
  /\ pc = "ready"
  /\ exc = None
  /\ k = 0 /\ l1 = 0 /\ l2 = 0
  /\ xs = Unset /\ zs = Unset /\ Hs = Unset /\ PoI = Unset
  /\ Z1_k = Unset /\ Z2_k = Unset /\ zeta1_k = Unset /\ zeta2_k = Unset
  /\ nom_cost1_k = Unset /\ nom_cost2_k = Unset /\ xnom_k = Unset
  /\ subgame_k = Unset /\ u_list = Unset
  /\ self_xs = Unset /\ self_zs = Unset /\ self_Hs = Unset /\ self_PoI = Unset
  /\ calls = <<>>
  /\ rets = <<>>

\* ------------------------------------------------------------------- plan
\* (faulty variant: the logs of states are one column short)
StateCols_m == N_sim
\* Number of columns of xs and zs, and of time slices of Hs and PoI.
StateCols == N_sim + 1
SliceCols == N_sim

\* plan, lines 67-79: allocate the logs and store x0, z0 in column 0.
PlanInit ==
  /\ pc = "ready"
  /\ xs' = [c \in 0..(StateCols - 1) |-> IF c = 0 THEN x0 ELSE Zeros(nx)]
  /\ zs' = [c \in 0..(StateCols - 1) |-> IF c = 0 THEN z0 ELSE Zeros(nz)]
  /\ Hs' = [c \in 0..(SliceCols - 1) |-> ConstMat(nz1 + nz2, 0)]
  /\ PoI' = [c \in 0..(SliceCols - 1) |-> Zeros(2)]
  /\ k' = 0
  /\ pc' = "loop"
  /\ UNCHANGED <<playerVars, costVars, cfgVars, exc, l1, l2, bundleVars, subgame_k, u_list, selfVars, calls, rets>>

\* Shape of nom_cost1_k and nom_cost2_k (np.zeros((2, 2))).
NomCostRows == 2
NomCostCols == 2

\* An nz1 x nz2 grid of cells holding v.
Grid(r, c, v) == [a \in 0..(r - 1) |-> [b \in 0..(c - 1) |-> v]]
SetCell(g, a, b, v) == [g EXCEPT ![a] = [g[a] EXCEPT ![b] = v]]

\* for k in range(N_sim), lines 81-89: a new step allocates the bundle arrays.
StepBegin ==
  /\ pc = "loop"
  /\ k < N_sim
  /\ Z1_k' = Grid(nz1, nz2, ConstMat(nx, 0))
  /\ Z2_k' = Grid(nz1, nz2, ConstMat(nx, 0))
  /\ zeta1_k' = Grid(nz1, nz2, Zeros(nx))
  /\ zeta2_k' = Grid(nz1, nz2, Zeros(nx))
  /\ nom_cost1_k' = Grid(NomCostRows, NomCostCols, 0)
  /\ nom_cost2_k' = Grid(NomCostRows, NomCostCols, 0)
  /\ xnom_k' = Grid(nz1, nz2, Zeros(nx))
  /\ l1' = 0 /\ l2' = 0
  /\ calls' = <<>>
  /\ pc' = "solve"
  /\ UNCHANGED <<playerVars, costVars, cfgVars, exc, k, logVars, subgame_k, u_list, selfVars, rets>>

\* (faulty variant: the solvers are always run at the initial state)
RunArg_m == xs[0]
\* The physical state handed to solver.run in step k (line 95).
RunArg == xs[k]

\* (faulty variant: the grid is walked l2 outer / l1 inner)
NextPair_m(a, b) ==
  IF a + 1 < nz1 THEN <<a + 1, b>>
  ELSE IF b + 1 < nz2 THEN <<0, b + 1>>
  ELSE <<>>
\* for l1 / for l2, lines 92-106: the position after pair (l1, l2); <<>> when
\* the grid is exhausted.
NextPair(a, b) ==
  IF b + 1 < nz2 THEN <<a, b + 1>>
  ELSE IF a + 1 < nz1 THEN <<a + 1, 0>>
  ELSE <<>>

\* lines 94-109: run the solver of pair (l1, l2) and copy its operating point
\* into the bundle arrays; nom_cost1_k[l1, l2] raises IndexError outside the
\* 2 x 2 array.
SolveSubgame ==
  /\ pc = "solve"
  /\ \E op \in OperatingPoints :
       /\ calls' = Append(calls, [fn |-> "run", who |-> <<l1, l2>>,
                                  args |-> <<RunArg>>, ret |-> op])
       /\ xnom_k' = SetCell(xnom_k, l1, l2, op.xs_la)
       /\ Z1_k' = SetCell(Z1_k, l1, l2, op.Zs0)
       /\ Z2_k' = SetCell(Z2_k, l1, l2, op.Zs1)
       /\ zeta1_k' = SetCell(zeta1_k, l1, l2, op.zetas0)
       /\ zeta2_k' = SetCell(zeta2_k, l1, l2, op.zetas1)
       /\ IF l1 < NomCostRows /\ l2 < NomCostCols
          THEN /\ nom_cost1_k' = SetCell(nom_cost1_k, l1, l2, op.nom_costs[0])
               /\ nom_cost2_k' = SetCell(nom_cost2_k, l1, l2, op.nom_costs[1])
               /\ exc' = exc
               /\ IF NextPair(l1, l2) = <<>>
                  THEN pc' = "bundle" /\ UNCHANGED <<l1, l2>>
                  ELSE /\ pc' = "solve"
                       /\ l1' = NextPair(l1, l2)[1]
                       /\ l2' = NextPair(l1, l2)[2]
          ELSE /\ pc' = "raised"
               /\ exc' = "IndexError"
               /\ UNCHANGED <<nom_cost1_k, nom_cost2_k, l1, l2>>
  /\ UNCHANGED <<playerVars, costVars, cfgVars, k, logVars, subgame_k, u_list, selfVars, rets>>

\* (faulty variant: the references are not lagged)
ZnomSource_m(kk) == zs[kk]
\* lines 111-116: the opinion vector the references znom1_k, znom2_k are
\* sliced from in step kk.
ZnomSource(kk) == IF kk = 0 THEN z0 ELSE zs[kk - 1]

znom1_k == Slice(ZnomSource(k), 0, nz1)
znom2_k == Slice(ZnomSource(k), nz1, nz1 + nz2)
\* lines 118-121
z1_k == Slice(zs[k], 0, nz1)
z2_k == Slice(zs[k], nz1, nz1 + nz2)
att1_k == Slice(zs[k], nz1 + nz2, nz1 + nz2 + 1)
att2_k == zs[k][nz - 1]

\* line 123
BuildBundle ==
  /\ pc = "bundle"
  /\ subgame_k' = <<Z1_k, Z2_k, zeta1_k, zeta2_k, xnom_k, znom1_k, znom2_k,
                    nom_cost1_k, nom_cost2_k>>
  /\ pc' = "dispatch"
  /\ UNCHANGED <<playerVars, costVars, cfgVars, exc, k, l1, l2, logVars, bundleVars, u_list, selfVars, calls, rets>>

\* (faulty variant: QMDPL1L0 gives level 0 to player 1 and level 1 to player 2)
PlannerLevel_m(m, p) ==
  CASE m = "QMDPL0" -> "plan_level_0"
    [] m = "QMDPL1" -> "plan_level_1"
    [] m = "QMDPL1L0" -> IF p = 1 THEN "plan_level_0" ELSE "plan_level_1"
    [] OTHER -> None
\* lines 126-151: the planner routine player p uses under method m; None when
\* the method is not recognized.
PlannerLevel(m, p) ==
  CASE m = "QMDPL0" -> "plan_level_0"
    [] m = "QMDPL1" -> "plan_level_1"
    [] m = "QMDPL1L0" -> IF p = 1 THEN "plan_level_1" ELSE "plan_level_0"
    [] OTHER -> None

\* The arguments of player p's planner call in step k.
PlannerArgs(level, p) ==
  LET own == IF p = 1 THEN z1_k ELSE z2_k
      opp == IF p = 1 THEN z2_k ELSE z1_k
      att_own == IF p = 1 THEN <<att1_k>> ELSE <<att2_k>>
      att_opp == IF p = 1 THEN <<att2_k>> ELSE <<att1_k>>
  IN  IF level = "plan_level_0"
      THEN <<xs[k], own, opp, "subgames">>
      ELSE <<xs[k], own, opp, att_own, att_opp, "subgames", subgame_k>>

PlannerCall(p, u) ==
  [fn |-> PlannerLevel(method, p), who |-> <<p>>,
   args |-> PlannerArgs(PlannerLevel(method, p), p), ret |-> u]

\* lines 126-153
Dispatch ==
  /\ pc = "dispatch"
  /\ IF PlannerLevel(method, 1) = None
     THEN /\ pc' = "raised"
          /\ exc' = "NotImplementedError"
          /\ UNCHANGED <<u_list, calls>>
     ELSE \E a1 \in Actions1, a2 \in Actions2 :
            /\ calls' = calls \o <<PlannerCall(1, a1), PlannerCall(2, a2)>>
            /\ u_list' = <<a1, a2>>
            /\ pc' = "ginod"
            /\ exc' = exc
  /\ UNCHANGED <<playerVars, costVars, cfgVars, k, l1, l2, logVars, bundleVars, subgame_k, selfVars, rets>>

\* line 156
x_jnt == HStack(xs[k], nx, zs[k], nz)
\* (faulty variant: the Euler step ignores the timestep T)
NextOpinion_m(z_dot_k) == Euler(zs[k], 1, z_dot_k)
\* line 160: the next opinion column
NextOpinion(z_dot_k) == Euler(zs[k], T, z_dot_k)
\* (faulty variant: the step overwrites the current column)
NextCol_m == k
\* the log column written by step k for xs, zs (k + 1) and for Hs, PoI (k)
NextCol == k + 1
SliceCol == k

\* lines 155-162
EvolveGiNOD ==
  /\ pc = "ginod"
  /\ \E r \in GiNODReturns(nz, nz1 + nz2) :
       /\ calls' = Append(calls, [fn |-> "cont_time_dyn", who |-> <<"GiNOD">>,
                                  args |-> <<x_jnt, None, subgame_k>>, ret |-> r])
       /\ zs' = [zs EXCEPT ![NextCol] = NextOpinion(r.z_dot)]
       /\ Hs' = [Hs EXCEPT ![SliceCol] = r.H]
       /\ PoI' = [PoI EXCEPT ![SliceCol] = Vec2(r.PoI1, r.PoI2)]
       /\ rets' = Append(rets, r)
  /\ pc' = "physical"
  /\ UNCHANGED <<playerVars, costVars, cfgVars, exc, k, l1, l2, xs, bundleVars, subgame_k, u_list, selfVars>>

\* lines 164-168; the loop then moves to the next k
EvolvePhysical ==
  /\ pc = "physical"
  /\ \E x_ph_next \in PhysStates :
       /\ calls' = Append(calls, [fn |-> "disc_time_dyn", who |-> <<"ph_sys">>,
                                  args |-> <<xs[k], u_list>>, ret |-> x_ph_next])
       /\ xs' = [xs EXCEPT ![NextCol] = x_ph_next]
  /\ k' = k + 1
  /\ pc' = "loop"
  /\ UNCHANGED <<playerVars, costVars, cfgVars, exc, l1, l2, zs, Hs, PoI, bundleVars, subgame_k, u_list, selfVars, rets>>

\* lines 170-174
Save ==
  /\ pc = "loop"
  /\ k >= N_sim
  /\ self_xs' = xs /\ self_zs' = zs /\ self_Hs' = Hs /\ self_PoI' = PoI
  /\ pc' = "done"
  /\ UNCHANGED <<playerVars, costVars, cfgVars, exc, k, l1, l2, logVars, bundleVars, subgame_k, u_list, calls, rets>>

\* ================================================================ cost.py
\* The Cost objects.  get_cost and get_traj_cost are jitted with the object as
\* a static argument (static_argnums=(0,)): a call whose input shapes were
\* seen before runs the computation compiled at the first such call, in which
\* the attributes read from self are constants; a call with new input shapes
\* traces the Python body again and reads the attributes as they are then.

Refs == {1, 2}
RefVariants == {"ReferenceDeviationCost", "ReferenceDeviationCostPxDependent"}

\* The objects the constructors build (horizon h).
QuadraticCosts(h) ==
  { [variant |-> "QuadraticCost", dimension |-> d[1], is_x |-> d[2], origin |-> 1,
     px_lb |-> 0, px_dim |-> 0, horizon |-> h] : d \in {<<0, TRUE>>, <<1, TRUE>>, <<0, FALSE>>} }
ReferenceDeviationCosts(h) ==
  { [variant |-> "ReferenceDeviationCost", dimension |-> d[1], is_x |-> d[2], origin |-> 0,
     px_lb |-> 0, px_dim |-> 0, horizon |-> h] : d \in {<<0, TRUE>>, <<1, TRUE>>, <<0, FALSE>>} }
ReferenceDeviationCostsPxDependent(h) ==
  { [variant |-> "ReferenceDeviationCostPxDependent", dimension |-> 1, is_x |-> TRUE,
     origin |-> 0, px_lb |-> 3, px_dim |-> 0, horizon |-> h] }
\* an obstacle at the origin, seen from the first two state coordinates
ObstacleCosts(h) ==
  { [variant |-> "ObstacleCost", x_index |-> 0, y_index |-> 1, point |-> [x |-> 0, y |-> 0],
     max_distance |-> md, horizon |-> h] : md \in {2, 5, 6} }
\* boxes on control 0: the sampled controls 0 and 1 lie strictly inside, on
\* the bounds, below the minimum and above the maximum
BoxInputConstraintCosts(h) ==
  { [variant |-> "BoxInputConstraintCost", u_index |-> 0, control_min |-> b[1],
     control_max |-> b[2], q1 |-> q[1], q2 |-> q[2], horizon |-> h] :
       b \in {<<-1, 2>>, <<0, 1>>, <<2, 3>>, <<-3, -1>>}, q \in {<<1, 1>>, <<2, 2>>} }
Costs ==
  UNION { QuadraticCosts(h) \cup ReferenceDeviationCosts(h)
            \cup ReferenceDeviationCostsPxDependent(h) : h \in 1..MaxHorizon }

\* Inputs: a state column (a, a+1, ..) of length n with a one-entry control.
XCol(n, a) == [i \in 0..(n - 1) |-> a + i]
UCol(v) == [i \in 0..0 |-> v]
StateDims == {2, 3}
\* columns a trajectory may have beyond the horizon
ExtraCols == {0, 1}
Samples(n) ==
  { [x |-> XCol(n, 0), ui |-> UCol(1)],
    [x |-> XCol(n, 3), ui |-> UCol(0)] }
\* trajectories of cols columns: x is (n, cols), ui is (1, cols), column-indexed
Trajectories(n, cols) == [0..(cols - 1) -> Samples(n)]

NoCall == [fn |-> "none", x |-> <<>>, ui |-> <<>>, k |-> 0, result |-> 0, reference |-> None]

\* A cost object c is constructed with reference r; nothing is compiled yet.
CostNew(c, r) ==
  /\ cost = c
  /\ reference = IF c.variant \in RefVariants THEN r ELSE None
  /\ jit_get_cost = [key \in {} |-> None]
  /\ jit_get_traj_cost = [key \in {} |-> None]
  /\ jit_get_grad = [key \in {} |-> None]
  /\ jit_get_hess = [key \in {} |-> None]
  /\ last = NoCall

Sq(v) == v * v

\* (faulty variant: the bound itself does not open the gate)
PxGate_m(c, px) == px > c.px_lb
\* ReferenceDeviationCostPxDependent.get_cost, line 562: the predicate of lax.cond
PxGate(c, px) == px >= c.px_lb

\* jnp.sqrt and jnp.minimum; the inputs are chosen so that every distance is
\* a whole number
Sqrt(s) == CHOOSE r \in 0..s : r * r = s
Minimum(a, b) == IF a <= b THEN a ELSE b

\* (faulty variant: the margin is not clipped at 0)
ObstacleCostAt_m(c, x) ==
  LET dx == x[c.x_index] - c.point.x
      dy == x[c.y_index] - c.point.y
      relative_distance == Sqrt(dx * dx + dy * dy)
  IN  Sq(relative_distance - c.max_distance)
\* ObstacleCost.get_cost, lines 298-302
ObstacleCostAt(c, x) ==
  LET dx == x[c.x_index] - c.point.x
      dy == x[c.y_index] - c.point.y
      relative_distance == Sqrt(dx * dx + dy * dy)
  IN  Sq(Minimum(relative_distance - c.max_distance, 0))

\* jnp.exp on whole numbers, in fixed point and to base 2: increasing, and
\* Exp(0) is One
One == 2 ^ ExpShift
Exp(n) == 2 ^ (ExpShift + n)

\* (faulty variant: the barriers are not shifted by -1)
BoxCostAt_m(c, ui) ==
  LET control == ui[c.u_index]
      margin_ub == control - c.control_max
      margin_lb == c.control_min - control
      c_ub == c.q1 * Exp(c.q2 * margin_ub)
      c_lb == c.q1 * Exp(c.q2 * margin_lb)
  IN  c_lb + c_ub
\* BoxInputConstraintCost.get_cost, lines 729-735; the result is in units of
\* 1/One
BoxCostAt(c, ui) ==
  LET control == ui[c.u_index]
      margin_ub == control - c.control_max
      margin_lb == c.control_min - control
      c_ub == c.q1 * (Exp(c.q2 * margin_ub) - One)
      c_lb == c.q1 * (Exp(c.q2 * margin_lb) - One)
  IN  c_lb + c_ub

\* The body of get_cost of each variant, with self.reference read as ref.
CostAt(c, ref, x, ui, kk) ==
  CASE c.variant = "QuadraticCost" ->
         IF c.is_x THEN Sq(x[c.dimension] - c.origin) ELSE Sq(ui[c.dimension] - c.origin)
    [] c.variant = "ReferenceDeviationCost" ->
         IF c.is_x THEN Sq(x[c.dimension] - ref) ELSE Sq(ui[c.dimension] - ref)
    [] c.variant = "ReferenceDeviationCostPxDependent" ->
         IF PxGate(c, x[c.px_dim]) THEN Sq(x[c.dimension] - ref) ELSE 0
    [] c.variant = "ObstacleCost" -> ObstacleCostAt(c, x)
    [] c.variant = "BoxInputConstraintCost" -> BoxCostAt(c, ui)

\* jit: the constants of the computation run for inputs of shape key.
Len0(v) == Cardinality(DOMAIN v)
JitBaked(cache, key, current) == IF key \in DOMAIN cache THEN cache[key] ELSE current
JitStore(cache, key, current) == IF key \in DOMAIN cache THEN cache ELSE cache @@ (key :> current)
CostKey(x, ui) == <<Len0(x), Len0(ui)>>
TrajKey(x, ui) == <<Len0(x[0]), Len0(ui[0]), Len0(x)>>

\* (faulty variant: every entry is computed from column 0)
TrajColumn_m(m, kk) == m[0]
\* get_traj_cost, lines 155-162: column kk of a trajectory, and the fori_loop
\* that fills costs[kk] with get_cost of column kk.
TrajColumn(m, kk) == m[kk]
RECURSIVE ForiLoop(_, _, _, _, _, _, _)
ForiLoop(lower, upper, c, ref, x, ui, costs) ==
  IF lower >= upper THEN costs
  ELSE ForiLoop(lower + 1, upper, c, ref, x, ui,
                [costs EXCEPT ![lower] = CostAt(c, ref, TrajColumn(x, lower), TrajColumn(ui, lower), lower)])
TrajCostAt(c, ref, x, ui) == ForiLoop(0, c.horizon, c, ref, x, ui, Zeros(c.horizon))

\* ---------------------------------------------------------- derivatives
\* jacfwd and hessian differentiate get_cost in forward mode.  A value that
\* carries its derivatives along two seeded directions: v the value, d1 and
\* d2 the first derivatives, d12 the mixed second derivative.
HConst(v) == [v |-> v, d1 |-> 0, d2 |-> 0, d12 |-> 0]
HSub(a, b) == [v |-> a.v - b.v, d1 |-> a.d1 - b.d1, d2 |-> a.d2 - b.d2, d12 |-> a.d12 - b.d12]
HMul(a, b) ==
  [v |-> a.v * b.v,
   d1 |-> a.d1 * b.v + a.v * b.d1,
   d2 |-> a.d2 * b.v + a.v * b.d2,
   d12 |-> a.d12 * b.v + a.d1 * b.d2 + a.d2 * b.d1 + a.v * b.d12]
HSq(a) == HMul(a, a)
\* the vector vec seeded along coordinates p and q, and vec held constant
Seed(vec, p, q) ==
  [i \in DOMAIN vec |-> [v |-> vec[i], d1 |-> IF i = p THEN 1 ELSE 0,
                         d2 |-> IF i = q THEN 1 ELSE 0, d12 |-> 0]]
Hold(vec) == [i \in DOMAIN vec |-> HConst(vec[i])]

\* the costs whose get_cost is a polynomial of its inputs
PolyVariants == {"QuadraticCost", "ReferenceDeviationCost", "ReferenceDeviationCostPxDependent"}

\* get_cost of the polynomial variants, traced on values carrying derivatives.
CostAtH(c, ref, x, ui, kk) ==
  CASE c.variant = "QuadraticCost" ->
         IF c.is_x THEN HSq(HSub(x[c.dimension], HConst(c.origin)))
         ELSE HSq(HSub(ui[c.dimension], HConst(c.origin)))
    [] c.variant = "ReferenceDeviationCost" ->
         IF c.is_x THEN HSq(HSub(x[c.dimension], HConst(ref)))
         ELSE HSq(HSub(ui[c.dimension], HConst(ref)))
    [] c.variant = "ReferenceDeviationCostPxDependent" ->
         IF PxGate(c, x[c.px_dim].v) THEN HSq(HSub(x[c.dimension], HConst(ref))) ELSE HConst(0)

\* (faulty variant: the two argnums are swapped)
GradAt_m(c, ref, x, ui, kk) ==
  << [p \in DOMAIN x |-> CostAtH(c, ref, Hold(x), Seed(ui, p, p), kk).d1],
     [p \in DOMAIN ui |-> CostAtH(c, ref, Seed(x, p, p), Hold(ui), kk).d1] >>
\* get_grad, lines 179-180: jacfwd(self.get_cost, argnums=[0, 1])(x, ui, k).
GradAt(c, ref, x, ui, kk) ==
  << [p \in DOMAIN x |-> CostAtH(c, ref, Seed(x, p, p), Hold(ui), kk).d1],
     [p \in DOMAIN ui |-> CostAtH(c, ref, Hold(x), Seed(ui, p, p), kk).d1] >>

\* get_hess, lines 223-225: hessian w.r.t. argument 0 and w.r.t. argument 1.
HessAt(c, ref, x, ui, kk) ==
  << [p \in DOMAIN x |-> [q \in DOMAIN x |-> CostAtH(c, ref, Seed(x, p, q), Hold(ui), kk).d12]],
     [p \in DOMAIN ui |-> [q \in DOMAIN ui |-> CostAtH(c, ref, Hold(x), Seed(ui, p, q), kk).d12]] >>

\* get_traj_grad and get_traj_hess: column kk < horizon holds get_grad and
\* get_hess of column kk.  The objects are constructed with the x_dim and
\* ui_dim of the inputs they are given.
TrajGradAt(c, ref, x, ui) ==
  << [kk \in 0..(c.horizon - 1) |-> GradAt(c, ref, TrajColumn(x, kk), TrajColumn(ui, kk), kk)[1]],
     [kk \in 0..(c.horizon - 1) |-> GradAt(c, ref, TrajColumn(x, kk), TrajColumn(ui, kk), kk)[2]] >>
TrajHessAt(c, ref, x, ui) ==
  << [kk \in 0..(c.horizon - 1) |-> HessAt(c, ref, TrajColumn(x, kk), TrajColumn(ui, kk), kk)[1]],
     [kk \in 0..(c.horizon - 1) |-> HessAt(c, ref, TrajColumn(x, kk), TrajColumn(ui, kk), kk)[2]] >>

\* cost.reference = r
SetReference ==
  /\ cost.variant \in RefVariants
  /\ \E r \in Refs : reference' = r
  /\ UNCHANGED <<playerVars, planVars, cost, jit_get_cost, jit_get_traj_cost, jit_get_grad, jit_get_hess, last>>

\* cost.get_cost(x, ui, k) on one column
CallGetCost ==
  \E n \in StateDims : \E s \in Samples(n) : \E kk \in 0..(cost.horizon - 1) :
    LET key == CostKey(s.x, s.ui)
        baked == JitBaked(jit_get_cost, key, reference)
    IN  /\ jit_get_cost' = JitStore(jit_get_cost, key, reference)
        /\ last' = [fn |-> "get_cost", x |-> s.x, ui |-> s.ui, k |-> kk,
                    result |-> CostAt(cost, baked, s.x, s.ui, kk), reference |-> reference]
        /\ UNCHANGED <<playerVars, planVars, cost, reference, jit_get_traj_cost, jit_get_grad, jit_get_hess>>

\* cost.get_traj_cost(x, ui) on a trajectory of at least horizon columns; when
\* it is traced, the looper calls the jitted self.get_cost on columns.
CallGetTrajCost ==
  \E n \in StateDims : \E extra \in ExtraCols :
    \E tr \in Trajectories(n, cost.horizon + extra) :
      LET x == [col \in DOMAIN tr |-> tr[col].x]
          ui == [col \in DOMAIN tr |-> tr[col].ui]
          key == TrajKey(x, ui)
          hit == key \in DOMAIN jit_get_traj_cost
          inner == JitBaked(jit_get_cost, CostKey(x[0], ui[0]), reference)
          baked == JitBaked(jit_get_traj_cost, key, inner)
      IN  /\ jit_get_traj_cost' = JitStore(jit_get_traj_cost, key, inner)
          /\ jit_get_cost' = IF hit THEN jit_get_cost
                             ELSE JitStore(jit_get_cost, CostKey(x[0], ui[0]), reference)
          /\ last' = [fn |-> "get_traj_cost", x |-> x, ui |-> ui, k |-> 0,
                      result |-> TrajCostAt(cost, baked, x, ui), reference |-> reference]
          /\ UNCHANGED <<playerVars, planVars, cost, reference, jit_get_grad, jit_get_hess>>

\* cost.get_grad(x, ui, k) on one column; when it is traced, jacfwd calls the
\* jitted self.get_cost.
CallGetGrad ==
  /\ cost.variant \in PolyVariants
  /\ \E n \in StateDims : \E s \in Samples(n) : \E kk \in 0..(cost.horizon - 1) :
       LET key == CostKey(s.x, s.ui)
           hit == key \in DOMAIN jit_get_grad
           inner == JitBaked(jit_get_cost, key, reference)
           baked == JitBaked(jit_get_grad, key, inner)
       IN  /\ jit_get_grad' = JitStore(jit_get_grad, key, inner)
           /\ jit_get_cost' = IF hit THEN jit_get_cost ELSE JitStore(jit_get_cost, key, reference)
           /\ last' = [fn |-> "get_grad", x |-> s.x, ui |-> s.ui, k |-> kk,
                       result |-> GradAt(cost, baked, s.x, s.ui, kk), reference |-> reference]
           /\ UNCHANGED <<playerVars, planVars, cost, reference, jit_get_traj_cost, jit_get_hess>>

\* cost.get_hess(x, ui, k) on one column
CallGetHess ==
  /\ cost.variant \in PolyVariants
  /\ \E n \in StateDims : \E s \in Samples(n) : \E kk \in 0..(cost.horizon - 1) :
       LET key == CostKey(s.x, s.ui)
           hit == key \in DOMAIN jit_get_hess
           inner == JitBaked(jit_get_cost, key, reference)
           baked == JitBaked(jit_get_hess, key, inner)
       IN  /\ jit_get_hess' = JitStore(jit_get_hess, key, inner)
           /\ jit_get_cost' = IF hit THEN jit_get_cost ELSE JitStore(jit_get_cost, key, reference)
           /\ last' = [fn |-> "get_hess", x |-> s.x, ui |-> s.ui, k |-> kk,
                       result |-> HessAt(cost, baked, s.x, s.ui, kk), reference |-> reference]
           /\ UNCHANGED <<playerVars, planVars, cost, reference, jit_get_traj_cost, jit_get_grad>>

\* ------------------------------------------------------------ PlayerCost
\* A PlayerCost holds its terms in three parallel lists.  get_cost and
\* quadraticize_jitted are jitted with the object as a static argument: the
\* loop over the lists runs when the method is traced, so the computation
\* compiled for an input shape holds the terms the lists had at that time.
\* The terms are QuadraticCost objects, whose attributes never change.
\* the (cost, arg, weight) triples add_cost is called with
PlayerTerms(h) ==
  { [cost |-> t[1], arg |-> t[2], weight |-> t[3]] :
      t \in { <<[variant |-> "QuadraticCost", dimension |-> 0, is_x |-> TRUE, origin |-> 1,
                 px_lb |-> 0, px_dim |-> 0, horizon |-> h], "x", 2>>,
              <<[variant |-> "QuadraticCost", dimension |-> 1, is_x |-> TRUE, origin |-> 1,
                 px_lb |-> 0, px_dim |-> 0, horizon |-> h], "0", 1>>,
              <<[variant |-> "QuadraticCost", dimension |-> 0, is_x |-> FALSE, origin |-> 1,
                 px_lb |-> 0, px_dim |-> 0, horizon |-> h], "0", 3>> } }

NoPlayerCall == [fn |-> "none", x |-> <<>>, ui |-> <<>>, k |-> 0, result |-> 0,
                 costs |-> <<>>, weights |-> <<>>, traced |-> 0]

\* PlayerCost() for terms of horizon h
PlayerCostNew(h) ==
  /\ p_costs = <<>> /\ p_args = <<>> /\ p_weights = <<>>
  /\ p_horizon = h
  /\ jit_p_get_cost = [key \in {} |-> None]
  /\ jit_p_quadraticize = [key \in {} |-> None]
  /\ p_late = FALSE
  /\ p_last = NoPlayerCall

\* arrays of the same shape, added and scaled entry by entry
VAdd(a, b) == [i \in DOMAIN a |-> a[i] + b[i]]
VScale(w, a) == [i \in DOMAIN a |-> w * a[i]]
MAdd(a, b) == [i \in DOMAIN a |-> VAdd(a[i], b[i])]
MScale(w, a) == [i \in DOMAIN a |-> VScale(w, a[i])]
TAdd(a, b) == [i \in DOMAIN a |-> MAdd(a[i], b[i])]
TScale(w, a) == [i \in DOMAIN a |-> MScale(w, a[i])]

\* (faulty variant: the weight is not applied)
Weighted_m(weight, current) == current
\* lines 58, 84: weight * cost.get_traj_cost(x, ui)
Weighted(weight, current) == VScale(weight, current)

\* the loops of get_cost (lines 56-59) and quadraticize_jitted (lines 77-97)
\* over the first n terms of the lists; every total starts as the scalar 0.
RECURSIVE TotalCost(_, _, _, _, _)
TotalCost(costs, weights, n, x, ui) ==
  IF n = 0 THEN 0
  ELSE LET current == Weighted(weights[n], TrajCostAt(costs[n], None, x, ui))
       IN  IF n = 1 THEN current
           ELSE VAdd(TotalCost(costs, weights, n - 1, x, ui), current)
RECURSIVE TotalGrad(_, _, _, _, _, _)
TotalGrad(costs, weights, n, x, ui, arg) ==
  IF n = 0 THEN 0
  ELSE LET current == MScale(weights[n], TrajGradAt(costs[n], None, x, ui)[arg])
       IN  IF n = 1 THEN current
           ELSE MAdd(TotalGrad(costs, weights, n - 1, x, ui, arg), current)
RECURSIVE TotalHess(_, _, _, _, _, _)
TotalHess(costs, weights, n, x, ui, arg) ==
  IF n = 0 THEN 0
  ELSE LET current == TScale(weights[n], TrajHessAt(costs[n], None, x, ui)[arg])
       IN  IF n = 1 THEN current
           ELSE TAdd(TotalHess(costs, weights, n - 1, x, ui, arg), current)

\* player_cost.add_cost(cost, arg, weight)
AddCost ==
  /\ Len(p_costs) < MaxTerms
  /\ \E t \in PlayerTerms(p_horizon) :
       /\ p_costs' = Append(p_costs, t.cost)
       /\ p_args' = Append(p_args, t.arg)
       /\ p_weights' = Append(p_weights, t.weight)
  /\ p_late' = (p_late \/ p_last.fn # "none")
  /\ UNCHANGED <<planVars, costVars, p_horizon, jit_p_get_cost, jit_p_quadraticize, p_last>>

\* the trajectories a PlayerCost is evaluated on: x is (2, horizon), ui (1, horizon)
PlayerInputs == Trajectories(2, p_horizon)

\* player_cost.get_cost(x, ui, k)
PlayerGetCost ==
  \E tr \in PlayerInputs : \E kk \in 0..1 :
    LET x == [col \in DOMAIN tr |-> tr[col].x]
        ui == [col \in DOMAIN tr |-> tr[col].ui]
        key == TrajKey(x, ui)
        baked == JitBaked(jit_p_get_cost, key, <<p_costs, p_weights>>)
    IN  /\ jit_p_get_cost' = JitStore(jit_p_get_cost, key, <<p_costs, p_weights>>)
        /\ p_last' = [fn |-> "get_cost", x |-> x, ui |-> ui, k |-> kk,
                      result |-> TotalCost(baked[1], baked[2], Len(baked[1]), x, ui),
                      costs |-> p_costs, weights |-> p_weights, traced |-> Len(baked[1])]
        /\ UNCHANGED <<planVars, costVars, p_costs, p_args, p_weights, p_horizon,
                       jit_p_quadraticize, p_late>>

\* player_cost.quadraticize_jitted(x, ui)
Quadraticize ==
  \E tr \in PlayerInputs :
    LET x == [col \in DOMAIN tr |-> tr[col].x]
        ui == [col \in DOMAIN tr |-> tr[col].ui]
        key == TrajKey(x, ui)
        baked == JitBaked(jit_p_quadraticize, key, <<p_costs, p_weights>>)
        n == Len(baked[1])
    IN  /\ jit_p_quadraticize' = JitStore(jit_p_quadraticize, key, <<p_costs, p_weights>>)
        /\ p_last' = [fn |-> "quadraticize_jitted", x |-> x, ui |-> ui, k |-> 0,
                      result |-> << TotalCost(baked[1], baked[2], n, x, ui),
                                    TotalGrad(baked[1], baked[2], n, x, ui, 1),
                                    TotalGrad(baked[1], baked[2], n, x, ui, 2),
                                    TotalHess(baked[1], baked[2], n, x, ui, 1),
                                    TotalHess(baked[1], baked[2], n, x, ui, 2) >>,
                      costs |-> p_costs, weights |-> p_weights, traced |-> n]
        /\ UNCHANGED <<planVars, costVars, p_costs, p_args, p_weights, p_horizon,
                       jit_p_get_cost, p_late>>

\* ============================================================ specifications
PlannerConfigs == (0..MaxNsim) \X Methods \X (1..MaxNz) \X (1..MaxNz) \X Ts

\* The planner runs; the cost object is not used.
Init ==
  /\ \E p \in PlannerConfigs : PlannerNew(p[1], p[2], p[3], p[4], p[5])
  /\ CostNew(CHOOSE c \in Costs : TRUE, 1)
  /\ PlayerCostNew(1)

Next ==
  \/ PlanInit
  \/ StepBegin
  \/ SolveSubgame
  \/ BuildBundle
  \/ Dispatch
  \/ EvolveGiNOD
  \/ EvolvePhysical
  \/ Save

Spec == Init /\ [][Next]_vars

\* A cost object is evaluated and its reference reassigned; the planner is idle.
InitCost ==
  /\ PlannerNew(0, "QMDPL0", 1, 1, 1)
  /\ \E c \in Costs, r \in Refs : CostNew(c, r)
  /\ PlayerCostNew(1)

NextCost ==
  \/ SetReference
  \/ CallGetCost
  \/ CallGetTrajCost

SpecCost == InitCost /\ [][NextCost]_vars

\* A cost object without mutable attributes is evaluated and differentiated
\* at single columns.
PointCosts ==
  UNION { QuadraticCosts(h) \cup ObstacleCosts(h) \cup BoxInputConstraintCosts(h) : h \in 1..MaxHorizon }

InitPoint ==
  /\ PlannerNew(0, "QMDPL0", 1, 1, 1)
  /\ \E c \in PointCosts : CostNew(c, 1)
  /\ PlayerCostNew(1)

NextPoint ==
  \/ CallGetCost
  \/ CallGetGrad
  \/ CallGetHess

SpecPoint == InitPoint /\ [][NextPoint]_vars

\* A PlayerCost is given terms and evaluated; the planner is idle.
InitPlayer ==
  /\ PlannerNew(0, "QMDPL0", 1, 1, 1)
  /\ CostNew(CHOOSE c \in Costs : TRUE, 1)
  /\ \E h \in 1..MaxHorizon : PlayerCostNew(h)

NextPlayer ==
  \/ AddCost
  \/ PlayerGetCost
  \/ Quadraticize

SpecPlayer == InitPlayer /\ [][NextPlayer]_vars

\* ================================================================ claims
\* The step whose calls `calls` holds: after a step is complete the loop
\* index has moved on.
StepDone == pc \in {"loop", "done"} /\ calls # <<>>
StepK == IF pc \in {"loop", "done"} THEN k - 1 ELSE k
IsRun(c) == c.fn = "run"
IsPlanner(c) == c.fn \in {"plan_level_0", "plan_level_1"}
IsGiNOD(c) == c.fn = "cont_time_dyn"
IsPhysical(c) == c.fn = "disc_time_dyn"
Runs == SelectSeq(calls, IsRun)
PlannerCalls == SelectSeq(calls, IsPlanner)
GiNODCalls == SelectSeq(calls, IsGiNOD)
\* the P1 and P2 opinion slices of an opinion vector v
P1Slice(v) == [i \in 0..(nz1 - 1) |-> v[i]]
P2Slice(v) == [i \in 0..(nz2 - 1) |-> v[nz1 + i]]

\* C1: when plan completes, xs and zs have exactly N_sim+1 columns, column 0
\* being x0 and z0, and Hs and PoI have exactly N_sim time slices.
C1_LogShapes ==
  pc = "done" =>
    /\ DOMAIN self_xs = 0..N_sim
    /\ DOMAIN self_zs = 0..N_sim
    /\ Cardinality(DOMAIN self_xs) = N_sim + 1
    /\ Cardinality(DOMAIN self_zs) = N_sim + 1
    /\ self_xs[0] = x0
    /\ self_zs[0] = z0
    /\ DOMAIN self_Hs = 0..(N_sim - 1)
    /\ DOMAIN self_PoI = 0..(N_sim - 1)
    /\ Cardinality(DOMAIN self_Hs) = N_sim
    /\ Cardinality(DOMAIN self_PoI) = N_sim
C1_Witness == pc = "done" /\ N_sim = MaxNsim /\ method = "QMDPL1L0"

\* C2: the opinion references of the bundle of step k are the P1 and P2 slices
\* of z0 when k = 0 and of zs[:,k-1] when k > 0, in the bundle as built and in
\* the bundle handed to the level-1 planners and to the opinion model.
C2_RefIs(b, kk) ==
  LET ref == IF kk = 0 THEN z0 ELSE zs[kk - 1]
  IN  b[6] = P1Slice(ref) /\ b[7] = P2Slice(ref)
C2_ReferenceLag ==
  /\ pc \in {"dispatch", "ginod", "physical"} => C2_RefIs(subgame_k, k)
  /\ \A i \in 1..Len(calls) :
       /\ calls[i].fn = "plan_level_1" => C2_RefIs(calls[i].args[7], StepK)
       /\ calls[i].fn = "cont_time_dyn" => C2_RefIs(calls[i].args[3], StepK)
C2_Witness ==
  /\ pc = "physical" /\ k = 1 /\ zs[1] # zs[0]
  /\ subgame_k[6] = P1Slice(zs[0]) /\ subgame_k[6] # P1Slice(zs[1])

\* C3: in every step each player's planner is invoked exactly once, player 1
\* then player 2, at xs[:,k] with (own, opponent) opinions sliced from zs[:,k],
\* by the routine the method names; before the dispatch no planner is called.
C3_Level(p) ==
  IF method = "QMDPL0" THEN "plan_level_0"
  ELSE IF method = "QMDPL1" THEN "plan_level_1"
  ELSE IF p = 1 THEN "plan_level_1" ELSE "plan_level_0"
C3_CallOk(c, p) ==
  /\ c.who = <<p>>
  /\ c.fn = C3_Level(p)
  /\ c.args[1] = xs[StepK]
  /\ c.args[2] = (IF p = 1 THEN P1Slice(zs[StepK]) ELSE P2Slice(zs[StepK]))
  /\ c.args[3] = (IF p = 1 THEN P2Slice(zs[StepK]) ELSE P1Slice(zs[StepK]))
C3_PlannerDispatch ==
  IF pc \in {"ginod", "physical"} \/ StepDone
  THEN /\ method \in Recognized
       /\ Len(PlannerCalls) = 2
       /\ C3_CallOk(PlannerCalls[1], 1)
       /\ C3_CallOk(PlannerCalls[2], 2)
  ELSE PlannerCalls = <<>>
C3_Witness ==
  /\ pc = "ginod" /\ method = "QMDPL1L0" /\ k = 1
  /\ PlannerCalls[1].fn = "plan_level_1" /\ PlannerCalls[2].fn = "plan_level_0"

\* C4: with an unrecognized method plan never reaches the done state and leaves
\* the planner's xs, zs, Hs and PoI unset, whatever N_sim is.
C4_UnrecognizedNeverDone ==
  method \notin Recognized =>
    /\ pc # "done"
    /\ self_xs = Unset /\ self_zs = Unset /\ self_Hs = Unset /\ self_PoI = Unset

\* C5: for every step j done so far, zs[:,j+1] = zs[:,j] + T * z_dot_j and
\* Hs[:,:,j], PoI[:,j] hold the Hessian and the PoI scalars of the same
\* cont_time_dyn call, which was made with (xs[:,j] ++ zs[:,j], None, bundle of
\* step j).
C5_EulerStep ==
  /\ \A j \in 0..(Len(rets) - 1) :
       /\ \A i \in 0..(nz1 + nz2 + 1) : zs[j + 1][i] = zs[j][i] + T * rets[j + 1].z_dot[i]
       /\ Hs[j] = rets[j + 1].H
       /\ PoI[j][0] = rets[j + 1].PoI1 /\ PoI[j][1] = rets[j + 1].PoI2
  /\ pc = "done" => Len(rets) = N_sim
  /\ pc = "physical" \/ StepDone =>
       /\ Len(GiNODCalls) = 1
       /\ Len(rets) = StepK + 1
       /\ GiNODCalls[1].ret = rets[StepK + 1]
       /\ GiNODCalls[1].args[1] =
            [i \in 0..(nz1 + nz2 + 3) |-> IF i < 2 THEN xs[StepK][i] ELSE zs[StepK][i - 2]]
       /\ GiNODCalls[1].args[2] = None
       /\ GiNODCalls[1].args[3] = subgame_k
C5_Witness == pc = "done" /\ N_sim = MaxNsim /\ T = 2 /\ zs[2] # zs[1] /\ zs[1] # zs[0]

\* C6: in every step the solvers of the grid are run once each, in the order
\* l1 outer / l2 inner, at xs[:,k], and all nz1*nz2 runs are complete before
\* the bundle is built and before any planner or opinion-model call.
C6_SolveBarrier ==
  /\ \A i \in 1..Len(Runs) :
       /\ Runs[i].who = <<(i - 1) \div nz2, (i - 1) % nz2>>
       /\ Runs[i].args = <<xs[StepK]>>
       /\ calls[i].fn = "run"
  /\ Len(Runs) <= nz1 * nz2
  /\ (pc \in {"bundle", "dispatch", "ginod", "physical"} \/ StepDone) => Len(Runs) = nz1 * nz2
  /\ Len(calls) > Len(Runs) => Len(Runs) = nz1 * nz2
C6_Witness ==
  /\ pc = "bundle" /\ nz1 = 2 /\ nz2 = 2 /\ k = 1 /\ xs[1] # xs[0]
  /\ Len(Runs) = 4 /\ Runs[3].who = <<1, 0>>

\* C7: for every nz1, nz2 >= 1 building the bundle never fails, and the bundle
\* holds for each player exactly one nominal cost per mode pair of the
\* nz1 x nz2 grid, the one its solver reported in this step.
C7_NomCostOk(b) ==
  /\ DOMAIN b[8] = 0..(nz1 - 1) /\ DOMAIN b[9] = 0..(nz1 - 1)
  /\ \A a \in 0..(nz1 - 1) :
       /\ DOMAIN b[8][a] = 0..(nz2 - 1) /\ DOMAIN b[9][a] = 0..(nz2 - 1)
       /\ \A c \in 0..(nz2 - 1) :
            /\ b[8][a][c] = Runs[a * nz2 + c + 1].ret.nom_costs[0]
            /\ b[9][a][c] = Runs[a * nz2 + c + 1].ret.nom_costs[1]
C7_BundleNomCosts ==
  /\ exc # "IndexError"
  /\ pc \in {"dispatch", "ginod", "physical"} => C7_NomCostOk(subgame_k)

\* C8: during plan a step writes only xs[:,k+1], zs[:,k+1], Hs[:,:,k] and
\* PoI[:,k]; xs[:,k+1] is the result of disc_time_dyn(xs[:,k], [u1, u2]) with
\* the two actions the planners returned in this step, and a zs column is
\* written only by the opinion Euler step.
C8_Frame ==
  pc # "ready" =>
    /\ DOMAIN xs' = DOMAIN xs /\ DOMAIN zs' = DOMAIN zs
    /\ DOMAIN Hs' = DOMAIN Hs /\ DOMAIN PoI' = DOMAIN PoI
    /\ \A c \in DOMAIN xs : xs'[c] # xs[c] =>
         /\ c = k + 1
         /\ pc = "physical"
         /\ LET call == calls'[Len(calls')]
            IN  /\ call.fn = "disc_time_dyn"
                /\ call.args = <<xs[k], <<PlannerCalls[1].ret, PlannerCalls[2].ret>>>>
                /\ xs'[c] = call.ret
    /\ \A c \in DOMAIN zs : zs'[c] # zs[c] =>
         /\ c = k + 1
         /\ pc = "ginod"
         /\ LET call == calls'[Len(calls')]
            IN  /\ call.fn = "cont_time_dyn"
                /\ \A i \in 0..(nz1 + nz2 + 1) : zs'[c][i] = zs[k][i] + T * call.ret.z_dot[i]
    /\ \A c \in DOMAIN Hs : Hs'[c] # Hs[c] => c = k /\ pc = "ginod"
    /\ \A c \in DOMAIN PoI : PoI'[c] # PoI[c] => c = k /\ pc = "ginod"
C8_AppendOnly == [][C8_Frame]_vars
C8_Witness ==
  /\ pc = "loop" /\ k = 2 /\ calls # <<>>
  /\ xs[2] = calls[Len(calls)].ret /\ xs[1] # xs[2] /\ xs[1] # xs[0]
\* the coordinate a ReferenceDeviationCost reads from a column
C9_Value(x, ui) == IF cost.is_x THEN x[cost.dimension] ELSE ui[cost.dimension]
\* C9: every get_cost and get_traj_cost of a ReferenceDeviationCost returns
\* (value - r)^2 for the most recently assigned reference r, whatever was
\* evaluated before.
C9_LastWriterWins ==
  cost.variant = "ReferenceDeviationCost" =>
    /\ last.fn = "get_cost" =>
         last.result = (C9_Value(last.x, last.ui) - last.reference) * (C9_Value(last.x, last.ui) - last.reference)
    /\ last.fn = "get_traj_cost" =>
         \A col \in 0..(cost.horizon - 1) :
           last.result[col] = (C9_Value(last.x[col], last.ui[col]) - last.reference)
                                * (C9_Value(last.x[col], last.ui[col]) - last.reference)

\* what get_cost(x, ui, kk) returns when called in the current state
C10_GetCost(x, ui, kk) ==
  CostAt(cost, JitBaked(jit_get_cost, CostKey(x, ui), reference), x, ui, kk)
\* C10: get_traj_cost(x, u) on a trajectory of at least horizon columns has
\* length exactly horizon, and its entry col is get_cost(x[:,col], u[:,col], col).
C10_TrajCostPointwise ==
  last.fn = "get_traj_cost" =>
    /\ DOMAIN last.result = 0..(cost.horizon - 1)
    /\ Cardinality(DOMAIN last.result) = cost.horizon
    /\ \A col \in 0..(cost.horizon - 1) :
         last.result[col] = C10_GetCost(last.x[col], last.ui[col], col)
C10_Witness ==
  /\ last.fn = "get_traj_cost"
  /\ cost.horizon = MaxHorizon
  /\ Len0(last.x) = cost.horizon + 1
  /\ last.result[0] # last.result[1]
  /\ last.x[cost.horizon] # last.x[0]

\* ---- PlayerCost
\* the total cost the last evaluation returned: get_cost returns it,
\* quadraticize_jitted returns it as its first component
PlayerValue == IF p_last.fn = "quadraticize_jitted" THEN p_last.result[1] ELSE p_last.result
\* entry j of the sum of weight * get_traj_cost over the first n terms the
\* object had when it was last evaluated
RECURSIVE TermSum(_, _)
TermSum(n, j) ==
  IF n = 0 THEN 0
  ELSE TermSum(n - 1, j)
         + p_last.weights[n] * TrajCostAt(p_last.costs[n], None, p_last.x, p_last.ui)[j]

C12_QuadraticDerivatives ==
  (cost.variant = "QuadraticCost" /\ cost.is_x) =>
    /\ last.fn = "get_grad" =>
         /\ DOMAIN last.result[1] = DOMAIN last.x
         /\ DOMAIN last.result[2] = DOMAIN last.ui
         /\ \A i \in DOMAIN last.x :
              last.result[1][i] = IF i = cost.dimension
                                  THEN 2 * (last.x[cost.dimension] - cost.origin) ELSE 0
         /\ \A i \in DOMAIN last.ui : last.result[2][i] = 0
    /\ last.fn = "get_hess" =>
         /\ DOMAIN last.result[1] = DOMAIN last.x
         /\ \A p \in DOMAIN last.x :
              /\ DOMAIN last.result[1][p] = DOMAIN last.x
              /\ \A q \in DOMAIN last.x :
                   last.result[1][p][q] = IF p = cost.dimension /\ q = cost.dimension THEN 2 ELSE 0
C12_Witness ==
  /\ cost.variant = "QuadraticCost" /\ cost.is_x /\ cost.dimension = 1
  /\ last.fn = "get_grad"
  /\ Len0(last.x) = 3
  /\ last.result[1][1] = 6


\* ---- ObstacleCost
\* the whole-number distance from (x[x_index], x[y_index]) to the obstacle
ObstacleDist ==
  LET dx == last.x[cost.x_index] - cost.point.x
      dy == last.x[cost.y_index] - cost.point.y
  IN  CHOOSE dist \in 0..(dx * dx + dy * dy) : dist * dist = dx * dx + dy * dy

\* C13: ObstacleCost.get_cost is min(0, dist - max_distance)^2 with dist the
\* distance to the obstacle point: 0 for every dist >= max_distance, dist =
\* max_distance included, (max_distance - dist)^2 below it, so 1 at dist =
\* max_distance - 1, and never negative.
C13_ObstaclePenalty ==
  (cost.variant = "ObstacleCost" /\ last.fn = "get_cost") =>
    /\ last.result >= 0
    /\ ObstacleDist >= cost.max_distance => last.result = 0
    /\ ObstacleDist = cost.max_distance - 1 => last.result = 1
    /\ ObstacleDist < cost.max_distance =>
         last.result = (cost.max_distance - ObstacleDist) * (cost.max_distance - ObstacleDist)
C13_Witness ==
  /\ cost.variant = "ObstacleCost" /\ last.fn = "get_cost"
  /\ ObstacleDist = cost.max_distance
  /\ last.result = 0


\* ---- ReferenceDeviationCostPxDependent
\* the reference held by the get_cost computation compiled for the shape of
\* the last inputs
CompiledReference == jit_get_cost[CostKey(last.x, last.ui)]

BoxControl == last.ui[cost.u_index]
InBox == cost.control_min <= BoxControl /\ BoxControl <= cost.control_max

\* C15 as stated: with q1, q2 > 0 and min < max the cost is positive for
\* every control value, also strictly inside the box.
C15_AlwaysPositive ==
  (cost.variant = "BoxInputConstraintCost" /\ last.fn = "get_cost") => last.result > 0

\* C15: with q1, q2 > 0 and min < max, BoxInputConstraintCost.get_cost is
\* negative for every control value inside the box, the bounds included; it
\* is positive only for control values outside the box.
C15_NegativeInBox ==
  (cost.variant = "BoxInputConstraintCost" /\ last.fn = "get_cost") =>
    /\ InBox => last.result < 0
    /\ last.result > 0 => ~InBox
C15_Witness ==
  /\ cost.variant = "BoxInputConstraintCost" /\ last.fn = "get_cost"
  /\ cost.control_min < BoxControl /\ BoxControl < cost.control_max
  /\ last.result < 0

\* ---- PlayerCost after add_cost
\* C16: whatever the interleaving of add_cost calls and evaluations, what
\* get_cost and quadraticize_jitted return includes every term added before
\* the call, also when the object was evaluated on inputs of the same shape
\* before the latest add_cost.
C16_ReflectsTerms ==
  p_last.fn # "none" =>
    /\ p_last.traced = Len(p_last.costs)
    /\ Len(p_last.costs) > 0 =>
         \A j \in 0..(p_horizon - 1) : PlayerValue[j] = TermSum(Len(p_last.costs), j)

====
